---- MODULE Spec2Model ----
(***************************************************************************)
(* A model of main.py: natural_sort_key, resize and images_to_video.       *)
(*                                                                         *)
(* A string is a sequence of characters; a character is a one-element      *)
(* name ("a", "2", ".") and the two non-ASCII characters the model needs   *)
(* are named by their code point: "U00B2" is SUPERSCRIPT TWO and "U0663"   *)
(* is ARABIC-INDIC DIGIT THREE; "U005C" is the backslash.                  *)
(*                                                                         *)
(* os_name is the platform ("posix" or "nt"), which decides how glob       *)
(* compares names and joins paths.                                         *)
(*                                                                         *)
(* An image buffer is an entry of heap (a sequence: a buffer's identity is *)
(* its index), and img_array holds indices into it, as a Python list holds *)
(* references.                                                             *)
(***************************************************************************)
EXTENDS Integers, Sequences, FiniteSets, TLC

VARIABLES pc, os_name, dir, image_files, keys, i, attempts, img_array, heap,
          align_mode, resize_in, size, sink, log, err

vars == << pc, os_name, dir, image_files, keys, i, attempts, img_array, heap,
           align_mode, resize_in, size, sink, log, err >>

(***************************************************************************)
(* Bounds of the model.                                                    *)
(***************************************************************************)
MaxFiles == 3
MaxNameLen == 2
MaxSortFiles == 2
MaxImgs == 3
MaxDim == 2

(***************************************************************************)
(* Characters: what re's [0-9], str.isdigit, int and str.lower do to them. *)
(***************************************************************************)
AsciiDigits == {"0", "1", "2"}

\* str.isdigit is true of every character with the Unicode property
\* Digit: the ASCII digits, the decimal digits of other scripts (U+0663)
\* and digits that are not decimal, such as the superscripts (U+00B2).
IsDigitChar(c) == c \in AsciiDigits \cup {"U0663", "U00B2"}

\* int accepts exactly the decimal digits (Unicode category Nd).
IsDecimalChar(c) == c \in AsciiDigits \cup {"U0663"}

DecimalValue(c) ==
    CASE c = "0" -> 0
      [] c = "1" -> 1
      [] c = "2" -> 2
      [] c = "U0663" -> 3

\* The code point of a character: str comparison is by code point.
CodePoint(c) ==
    CASE c = "." -> 46
      [] c = "/" -> 47
      [] c = "0" -> 48
      [] c = "1" -> 49
      [] c = "2" -> 50
      [] c = "A" -> 65
      [] c = "G" -> 71
      [] c = "J" -> 74
      [] c = "P" -> 80
      [] c = "U005C" -> 92
      [] c = "a" -> 97
      [] c = "b" -> 98
      [] c = "d" -> 100
      [] c = "e" -> 101
      [] c = "g" -> 103
      [] c = "h" -> 104
      [] c = "j" -> 106
      [] c = "m" -> 109
      [] c = "n" -> 110
      [] c = "p" -> 112
      [] c = "t" -> 116
      [] c = "x" -> 120
      [] c = "U00B2" -> 178
      [] c = "U0663" -> 1635

LowerChar(c) ==
    CASE c = "A" -> "a"
      [] c = "G" -> "g"
      [] c = "J" -> "j"
      [] c = "P" -> "p"
      [] OTHER -> c

Lower(text) == [k \in 1..Len(text) |-> LowerChar(text[k])]

Tail2(s, n) == SubSeq(s, n + 1, Len(s))

(***************************************************************************)
(* natural_sort_key (lines 37-41).                                         *)
(***************************************************************************)
RECURSIVE DigitRunLen(_)
\* The length of the longest prefix of s that [0-9]+ matches.
DigitRunLen(s) ==
    IF s = << >> \/ Head(s) \notin AsciiDigits THEN 0
    ELSE 1 + DigitRunLen(Tail(s))

RECURSIVE TextRunLen(_)
\* The length of the longest prefix of s without a character of [0-9].
TextRunLen(s) ==
    IF s = << >> \/ Head(s) \in AsciiDigits THEN 0
    ELSE 1 + TextRunLen(Tail(s))

RECURSIVE re_split(_)
\* re.split('([0-9]+)', s): the texts between the matches and, because the
\* pattern is a group, the matches themselves; a text may be empty.
re_split(s) ==
    LET n == TextRunLen(s)
        rest == Tail2(s, n)
        d == DigitRunLen(rest)
    IN  IF rest = << >> THEN << SubSeq(s, 1, n) >>
        ELSE << SubSeq(s, 1, n), SubSeq(rest, 1, d) >> \o re_split(Tail2(rest, d))

\* text.isdigit(): not empty and every character a digit.
isdigit(text) == text # << >> /\ \A k \in 1..Len(text) : IsDigitChar(text[k])

\* int(text) raises ValueError on a character that is not a decimal digit.
IntRaises(text) == \E k \in 1..Len(text) : ~IsDecimalChar(text[k])

RECURSIVE IntOf(_)
IntOf(text) ==
    IF text = << >> THEN 0
    ELSE 10 * IntOf(SubSeq(text, 1, Len(text) - 1)) + DecimalValue(text[Len(text)])

\* One element of the key: an int or a str. The unused field is zero or
\* empty, so that equality of tokens is Python's ==.
IntToken(n) == [isInt |-> TRUE, n |-> n, t |-> << >>]
TextToken(t) == [isInt |-> FALSE, n |-> 0, t |-> t]

Token(text) == IF isdigit(text) THEN IntToken(IntOf(text)) ELSE TextToken(Lower(text))

natural_sort_key(s) ==
    LET parts == re_split(s)
    IN  IF \E k \in 1..Len(parts) : isdigit(parts[k]) /\ IntRaises(parts[k])
        THEN [exc |-> "ValueError", toks |-> << >>]
        ELSE [exc |-> "none", toks |-> [k \in 1..Len(parts) |-> Token(parts[k])]]

(***************************************************************************)
(* Comparing keys: Python's < on lists of int and str.                     *)
(***************************************************************************)
MinOf(S) == CHOOSE x \in S : \A y \in S : x <= y

MaxOf(S) == CHOOSE x \in S : \A y \in S : x >= y

Min2(a, b) == IF a < b THEN a ELSE b

Max2(a, b) == IF a > b THEN a ELSE b

Differ(a, b) == {k \in 1..Min2(Len(a), Len(b)) : a[k] # b[k]}

\* str < str: by code point at the first difference, else by length.
StrLT(x, y) ==
    IF Differ(x, y) = {} THEN Len(x) < Len(y)
    ELSE LET k == MinOf(Differ(x, y)) IN CodePoint(x[k]) < CodePoint(y[k])

\* list < list compares the first pair of unequal elements (an int and a
\* str are unequal) with <, which raises TypeError for an int and a str.
KeyComparable(a, b) ==
    Differ(a, b) = {} \/ LET k == MinOf(Differ(a, b)) IN a[k].isInt = b[k].isInt

KeyLT(a, b) ==
    IF Differ(a, b) = {} THEN Len(a) < Len(b)
    ELSE LET k == MinOf(Differ(a, b))
         IN  IF a[k].isInt THEN a[k].n < b[k].n ELSE StrLT(a[k].t, b[k].t)

(***************************************************************************)
(* list.sort(key=natural_sort_key) (line 63). The keys are computed first, *)
(* in order; the first that raises ends the call. The sort is stable. When *)
(* two keys of the list cannot be compared the call raises TypeError if it *)
(* compares them; which pairs it compares depends on the interpreter's     *)
(* version, but every two neighbours of a result were compared.            *)
(***************************************************************************)
Perms(n) == {p \in [1..n -> 1..n] : \A a, b \in 1..n : a # b => p[a] # p[b]}

KeysUntilRaise(files) ==
    LET all == [k \in 1..Len(files) |-> natural_sort_key(files[k])]
        bad == {k \in 1..Len(files) : all[k].exc # "none"}
    IN  IF bad = {} THEN all ELSE SubSeq(all, 1, MinOf(bad))

SortedPerms(files) ==
    LET n == Len(files)
        key(k) == natural_sort_key(files[k]).toks
    IN  {p \in Perms(n) :
            /\ \A a \in 1..(n - 1) :
                  /\ KeyComparable(key(p[a]), key(p[a + 1]))
                  /\ ~KeyLT(key(p[a + 1]), key(p[a]))
            /\ \A a, b \in 1..n :
                  (a < b /\ KeyComparable(key(p[a]), key(p[b]))
                     /\ ~KeyLT(key(p[a]), key(p[b]))
                     /\ ~KeyLT(key(p[b]), key(p[a]))) => p[a] < p[b]}

\* list_sort without the sort: the list is left in glob's order.
list_unsorted(files) ==
    IF \E k \in 1..Len(files) : natural_sort_key(files[k]).exc # "none"
    THEN {[exc |-> "ValueError", list |-> files]}
    ELSE {[exc |-> "none", list |-> files]}

list_sort(files) ==
    LET n == Len(files)
        key(k) == natural_sort_key(files[k])
    IN  IF \E k \in 1..n : key(k).exc # "none"
        THEN {[exc |-> "ValueError", list |-> files]}
        ELSE {[exc |-> "none", list |-> [a \in 1..n |-> files[p[a]]]] :
                 p \in SortedPerms(files)}
             \cup (IF \A a, b \in 1..n : KeyComparable(key(a).toks, key(b).toks)
                   THEN {}
                   ELSE {[exc |-> "TypeError", list |-> files]})

(***************************************************************************)
(* resize (lines 5-34).                                                    *)
(***************************************************************************)
RECURSIVE TargetScanHeightTwice(_, _, _, _, _)
\* TargetScan with line 20 reading min(_width, height).
TargetScanHeightTwice(hp, rest, mode, _height, _width) ==
    IF rest = << >> THEN << _height, _width >>
    ELSE LET img == hp[Head(rest)]
         IN  IF mode = "smallest"
             THEN TargetScanHeightTwice(hp, Tail(rest), mode,
                             Min2(_height, img.h), Min2(_width, img.h))
             ELSE TargetScanHeightTwice(hp, Tail(rest), mode,
                             Max2(_height, img.h), Max2(_width, img.w))

RECURSIVE TargetScan(_, _, _, _, _)
\* The loop of lines 16-23 over img_array[1:]: <<_height, _width>>.
TargetScan(hp, rest, mode, _height, _width) ==
    IF rest = << >> THEN << _height, _width >>
    ELSE LET img == hp[Head(rest)]
         IN  IF mode = "smallest"
             THEN TargetScan(hp, Tail(rest), mode,
                             Min2(_height, img.h), Min2(_width, img.w))
             ELSE TargetScan(hp, Tail(rest), mode,
                             Max2(_height, img.h), Max2(_width, img.w))

\* cv2.resize(img, (_width, _height), interpolation=cv2.INTER_LINEAR): a
\* new array of dsize = (width, height), the channels kept, the pixels
\* resampled.
cv2_resize(img, dsize) ==
    [h |-> dsize[2], w |-> dsize[1], ch |-> img.ch,
     px |-> [src |-> img.px.src, ops |-> Append(img.px.ops, "INTER_LINEAR")]]

\* ResizeOne with line 31 reading resized = img.
ResizeOneNoCopy(hp, ref, _height, _width) ==
    LET img == hp[ref]
    IN  IF << img.h, img.w >> # << _height, _width >>
        THEN [heap |-> Append(hp, [h |-> _height, w |-> _width, ch |-> img.ch,
                                   px |-> [src |-> img.px.src,
                                           ops |-> Append(img.px.ops, "INTER_LINEAR")]]),
              ref |-> Len(hp) + 1]
        ELSE [heap |-> hp, ref |-> ref]

\* Lines 28-32 for one image: the heap after it and the reference appended
\* to resized_array. cv2.resize and img.copy() both allocate.
ResizeOne(hp, ref, _height, _width) ==
    LET img == hp[ref]
    IN  IF << img.h, img.w >> # << _height, _width >>
        THEN [heap |-> Append(hp, cv2_resize(img, << _width, _height >>)),
              ref |-> Len(hp) + 1]
        ELSE [heap |-> Append(hp, img), ref |-> Len(hp) + 1]

RECURSIVE ResizeAll(_, _, _, _, _)
\* The loop of lines 27-32.
ResizeAll(hp, rest, _height, _width, resized_array) ==
    IF rest = << >> THEN [heap |-> hp, resized_array |-> resized_array]
    ELSE LET r == ResizeOne(hp, Head(rest), _height, _width)
         IN  ResizeAll(r.heap, Tail(rest), _height, _width,
                       Append(resized_array, r.ref))

resize(hp, arr, mode) ==
    LET first_img == hp[arr[1]]
        t == TargetScan(hp, Tail(arr), mode, first_img.h, first_img.w)
        r == ResizeAll(hp, arr, t[1], t[2], << >>)
    IN  [heap |-> r.heap, resized_array |-> r.resized_array,
         size |-> << t[2], t[1] >>]

(***************************************************************************)
(* The directory and glob (lines 51-57). A directory is the set of its     *)
(* file names; one that does not exist lists nothing, like an empty one.   *)
(* On Windows no two names of a directory differ only in case.             *)
(***************************************************************************)
Path == << "d" >>

FileUniverse ==
    { << "2", ".", "j", "p", "g" >>,
      << "1", "0", ".", "j", "p", "g" >>,
      << "a", ".", "p", "n", "g" >>,
      << "A", ".", "p", "n", "g" >>,
      << "b", ".", "t", "x", "t" >>,
      << "b", ".", "J", "P", "G" >>,
      << ".", "h", ".", "j", "p", "g" >>,
      << "2", "U00B2", "1", ".", "b", "m", "p" >>,
      << "2", "U0663", "1", ".", "j", "p", "e", "g" >> }

\* supported_formats without its last entry.
supported_formats_no_bmp ==
    << << "*", ".", "j", "p", "g" >>,
       << "*", ".", "j", "p", "e", "g" >>,
       << "*", ".", "p", "n", "g" >> >>

supported_formats ==
    << << "*", ".", "j", "p", "g" >>,
       << "*", ".", "j", "p", "e", "g" >>,
       << "*", ".", "p", "n", "g" >>,
       << "*", ".", "b", "m", "p" >> >>

\* os.path.normcase: the identity on POSIX, lower case on Windows.
normcase(s) == IF os_name = "nt" THEN Lower(s) ELSE s

\* fnmatch of a name against '*' + suffix, as glob applies it: name and
\* pattern are compared after normcase, and '*' does not match a name that
\* starts with a dot.
fnmatch(name, fmt) ==
    LET suffix == normcase(Tail(fmt))
        folded == normcase(name)
    IN  /\ Len(folded) >= Len(suffix)
        /\ SubSeq(folded, Len(folded) - Len(suffix) + 1, Len(folded)) = suffix
        /\ Head(name) # "."

\* os.path.join(path, name), as glob builds the paths it returns.
path_join(name) ==
    Path \o << IF os_name = "nt" THEN "U005C" ELSE "/" >> \o name

\* glob.glob(path + '/' + fmt): the paths of the matching names.
glob(d, fmt) == {path_join(name) : name \in {x \in d : fnmatch(x, fmt)}}

\* The orders in which a glob call may list a set of paths.
Listings(S) ==
    {q \in [1..Cardinality(S) -> S] :
        \A a, b \in 1..Cardinality(S) : a # b => q[a] # q[b]}

(***************************************************************************)
(* cv2.imread (line 70) and the conversion to BGR (lines 75-78). ch = 1    *)
(* stands for a 2-D array (len(img.shape) == 2). imread's result is taken  *)
(* to be None or an array of any of the three kinds lines 75-79 handle.    *)
(***************************************************************************)
None == [h |-> 0, w |-> 0, ch |-> 0]

ImreadShapes ==
    { [h |-> 1, w |-> 2, ch |-> 1],
      [h |-> 2, w |-> 1, ch |-> 4],
      [h |-> 2, w |-> 2, ch |-> 3],
      [h |-> 1, w |-> 1, ch |-> 3] }

NoOps == << >>

Decoded(filename, shape) ==
    [h |-> shape.h, w |-> shape.w, ch |-> shape.ch,
     px |-> [src |-> filename, ops |-> NoOps]]

cvtColor(img, code) ==
    [h |-> img.h, w |-> img.w, ch |-> 3,
     px |-> [src |-> img.px.src, ops |-> Append(img.px.ops, code)]]

\* AppendBGR without the branch of lines 77-78.
AppendBGRKeepAlpha(hp, arr, img) ==
    IF img.ch = 1
    THEN [heap |-> Append(Append(hp, img),
                          [h |-> img.h, w |-> img.w, ch |-> 3,
                           px |-> [src |-> img.px.src,
                                   ops |-> Append(img.px.ops, "GRAY2BGR")]]),
          img_array |-> Append(arr, Len(hp) + 2)]
    ELSE [heap |-> Append(hp, img), img_array |-> Append(arr, Len(hp) + 1)]

\* Lines 75-79: the heap and img_array after one decoded image.
AppendBGR(hp, arr, img) ==
    LET loaded == Append(hp, img)
    IN  IF img.ch = 1
        THEN [heap |-> Append(loaded, cvtColor(img, "GRAY2BGR")),
              img_array |-> Append(arr, Len(loaded) + 1)]
        ELSE IF img.ch = 4
        THEN [heap |-> Append(loaded, cvtColor(img, "BGRA2BGR")),
              img_array |-> Append(arr, Len(loaded) + 1)]
        ELSE [heap |-> loaded, img_array |-> Append(arr, Len(loaded))]

(***************************************************************************)
(* images_to_video (lines 43-102), one action per step of it. pc is the    *)
(* position in the function; "done" is its return and "failed" an          *)
(* exception that reached the caller, named by err. attempts, keys,        *)
(* resize_in and log record what was done: the imread calls and their      *)
(* results, the keys the sort computed, the argument of resize and the     *)
(* calls made on the VideoWriter.                                          *)
(***************************************************************************)
NoSink == [opened |-> FALSE, size |-> << 0, 0 >>, frames |-> << >>]

RECURSIVE Discovered(_, _)
\* Lines 55-57: the lists image_files may be after the loop over the
\* formats, each glob call listing its matches in an order of its own.
Discovered(d, fmts) ==
    IF fmts = << >> THEN {<< >>}
    ELSE {l \o rest : l \in Listings(glob(d, Head(fmts))),
                      rest \in Discovered(d, Tail(fmts))}

\* Lines 51-60.
Discover ==
    /\ pc = "discover"
    /\ \E files \in Discovered(dir, supported_formats) :
          /\ image_files' = files
          /\ IF files = << >>
             THEN pc' = "failed" /\ err' = "NoInputFiles"
             ELSE pc' = "sort" /\ err' = err
    /\ UNCHANGED << os_name, dir, keys, i, attempts, img_array, heap,
                    align_mode, resize_in, size, sink, log >>

\* Line 63, and line 67's enumerate(image_files, 1).
Sort ==
    /\ pc = "sort"
    /\ \E o \in list_sort(image_files) :
          /\ keys' = KeysUntilRaise(image_files)
          /\ image_files' = o.list
          /\ IF o.exc = "none"
             THEN pc' = "decode" /\ err' = err
             ELSE pc' = "failed" /\ err' = o.exc
    /\ i' = 1
    /\ UNCHANGED << os_name, dir, attempts, img_array, heap, align_mode,
                    resize_in, size, sink, log >>

\* DecodeOne with line 73 reading break.
DecodeOneAbort ==
    /\ pc = "decode"
    /\ i <= Len(image_files)
    /\ \E img \in ImreadShapes \cup {None} :
          LET filename == image_files[i]
              a == AppendBGR(heap, img_array, Decoded(filename, img))
          IN  /\ attempts' = Append(attempts, [file |-> filename, img |-> img])
              /\ IF img = None
                 THEN i' = Len(image_files) + 1 /\ UNCHANGED << heap, img_array >>
                 ELSE i' = i + 1 /\ heap' = a.heap /\ img_array' = a.img_array
    /\ UNCHANGED << pc, os_name, dir, image_files, keys, align_mode,
                    resize_in, size, sink, log, err >>

\* One turn of the loop of lines 67-79.
DecodeOne ==
    /\ pc = "decode"
    /\ i <= Len(image_files)
    /\ \E img \in ImreadShapes \cup {None} :
          LET filename == image_files[i]
              a == AppendBGR(heap, img_array, Decoded(filename, img))
          IN  /\ attempts' = Append(attempts, [file |-> filename, img |-> img])
              /\ IF img = None
                 THEN UNCHANGED << heap, img_array >>
                 ELSE heap' = a.heap /\ img_array' = a.img_array
    /\ i' = i + 1
    /\ UNCHANGED << pc, os_name, dir, image_files, keys, align_mode,
                    resize_in, size, sink, log, err >>

\* Lines 81-88, after the loop.
CheckAndResize ==
    /\ pc = "decode"
    /\ i > Len(image_files)
    /\ IF img_array = << >>
       THEN /\ pc' = "failed"
            /\ err' = "NoDecodable"
            /\ UNCHANGED << img_array, heap, resize_in, size >>
       ELSE LET r == resize(heap, img_array, "largest")
            IN  /\ resize_in' = img_array
                /\ heap' = r.heap
                /\ img_array' = r.resized_array
                /\ size' = r.size
                /\ pc' = "open"
                /\ err' = err
    /\ UNCHANGED << os_name, dir, image_files, keys, i, attempts, align_mode,
                    sink, log >>

\* OpenSink without the check of lines 94-95.
OpenSinkUnchecked ==
    /\ pc = "open"
    /\ \E isOpened \in BOOLEAN :
          /\ sink' = [opened |-> isOpened, size |-> size, frames |-> << >>]
          /\ log' = Append(log, IF isOpened THEN "open" ELSE "open_failed")
    /\ pc' = "write"
    /\ UNCHANGED << os_name, dir, image_files, keys, i, attempts, img_array,
                    heap, align_mode, resize_in, size, err >>

\* Lines 91-95: the VideoWriter opens or does not.
OpenSink ==
    /\ pc = "open"
    /\ \E isOpened \in BOOLEAN :
          /\ sink' = [opened |-> isOpened, size |-> size, frames |-> << >>]
          /\ log' = Append(log, IF isOpened THEN "open" ELSE "open_failed")
          /\ IF isOpened
             THEN pc' = "write" /\ err' = err
             ELSE pc' = "failed" /\ err' = "SinkOpen"
    /\ UNCHANGED << os_name, dir, image_files, keys, i, attempts, img_array,
                    heap, align_mode, resize_in, size >>

\* WriteFrame without the try/finally of lines 97-102.
WriteFrameNoFinally ==
    /\ pc = "write"
    /\ Len(sink.frames) < Len(img_array)
    /\ \E raised \in BOOLEAN :
          IF raised
          THEN /\ log' = Append(log, "write_raised")
               /\ pc' = "failed"
               /\ err' = "WriteError"
               /\ sink' = sink
          ELSE /\ log' = Append(log, "write")
               /\ sink' = [sink EXCEPT
                             !.frames = Append(@, heap[img_array[Len(@) + 1]])]
               /\ UNCHANGED << pc, err >>
    /\ UNCHANGED << os_name, dir, image_files, keys, i, attempts, img_array,
                    heap, align_mode, resize_in, size >>

\* One turn of the loop of lines 99-100: out.write(img) returns or raises.
WriteFrame ==
    /\ pc = "write"
    /\ Len(sink.frames) < Len(img_array)
    /\ \E raised \in BOOLEAN :
          IF raised
          THEN /\ log' = Append(log, "write_raised")
               /\ pc' = "finally"
               /\ err' = "WriteError"
               /\ sink' = sink
          ELSE /\ log' = Append(log, "write")
               /\ sink' = [sink EXCEPT
                             !.frames = Append(@, heap[img_array[Len(@) + 1]])]
               /\ UNCHANGED << pc, err >>
    /\ UNCHANGED << os_name, dir, image_files, keys, i, attempts, img_array,
                    heap, align_mode, resize_in, size >>

\* Lines 101-102: the finally block, entered when the loop ends or when a
\* write raised; the pending exception, if any, then reaches the caller.
Release ==
    /\ IF pc = "write" THEN Len(sink.frames) = Len(img_array) ELSE pc = "finally"
    /\ log' = Append(log, "release")
    /\ pc' = IF err = "none" THEN "done" ELSE "failed"
    /\ UNCHANGED << os_name, dir, image_files, keys, i, attempts, img_array,
                    heap, align_mode, resize_in, size, sink, err >>

Directories ==
    {d \in SUBSET FileUniverse : Cardinality(d) <= MaxFiles}

Init ==
    /\ pc = "discover"
    /\ os_name \in {"posix", "nt"}
    /\ dir \in Directories
    /\ os_name = "nt" => \A x, y \in dir : Lower(x) = Lower(y) => x = y
    /\ image_files = << >>
    /\ keys = << >>
    /\ i = 1
    /\ attempts = << >>
    /\ img_array = << >>
    /\ heap = << >>
    /\ align_mode = "largest"
    /\ resize_in = << >>
    /\ size = << 0, 0 >>
    /\ sink = NoSink
    /\ log = << >>
    /\ err = "none"

Next ==
    \/ Discover
    \/ Sort
    \/ DecodeOne
    \/ CheckAndResize
    \/ OpenSink
    \/ WriteFrame
    \/ Release

Spec == Init /\ [][Next]_vars

(***************************************************************************)
(* natural_sort_key and the sort on their own: the list is any list of at  *)
(* most MaxSortFiles strings of at most MaxNameLen characters.             *)
(***************************************************************************)
SortChars == {"a", "A", "0", "1", "2", "U0663", "U00B2"}

SortNames == UNION {[1..n -> SortChars] : n \in 1..MaxNameLen}

InitSort ==
    /\ pc = "sort"
    /\ os_name = "posix"
    /\ dir = {}
    /\ image_files \in UNION {[1..n -> SortNames] : n \in 1..MaxSortFiles}
    /\ keys = << >>
    /\ i = 1
    /\ attempts = << >>
    /\ img_array = << >>
    /\ heap = << >>
    /\ align_mode = "largest"
    /\ resize_in = << >>
    /\ size = << 0, 0 >>
    /\ sink = NoSink
    /\ log = << >>
    /\ err = "none"

SpecSort == InitSort /\ [][Sort]_vars

(***************************************************************************)
(* resize on its own: any list of at most MaxImgs images of at most        *)
(* MaxDim by MaxDim, each a buffer of its own, under either policy.        *)
(***************************************************************************)
Dims == 1..MaxDim

InputImage(k, h, w) ==
    [h |-> h, w |-> w, ch |-> 3, px |-> [src |-> << ToString(k) >>, ops |-> NoOps]]

InitResize ==
    /\ pc = "resize_call"
    /\ os_name = "posix"
    /\ dir = {}
    /\ image_files = << >>
    /\ keys = << >>
    /\ i = 1
    /\ attempts = << >>
    /\ \E n \in 1..MaxImgs :
          /\ heap \in {[k \in 1..n |-> InputImage(k, hs[k], ws[k])] :
                          hs \in [1..n -> Dims], ws \in [1..n -> Dims]}
          /\ img_array = [k \in 1..n |-> k]
    /\ align_mode \in {"smallest", "largest"}
    /\ resize_in = << >>
    /\ size = << 0, 0 >>
    /\ sink = NoSink
    /\ log = << >>
    /\ err = "none"

\* A call resized_array, size = resize(img_array, align_mode).
ResizeCall ==
    /\ pc = "resize_call"
    /\ LET r == resize(heap, img_array, align_mode)
       IN  /\ resize_in' = img_array
           /\ heap' = r.heap
           /\ img_array' = r.resized_array
           /\ size' = r.size
    /\ pc' = "returned"
    /\ UNCHANGED << os_name, dir, image_files, keys, i, attempts, align_mode,
                    sink, log, err >>

SpecResize == InitResize /\ [][ResizeCall]_vars

(***************************************************************************)
(* The claims.                                                             *)
(***************************************************************************)
Range(s) == {s[k] : k \in 1..Len(s)}

Count(s, e) == Cardinality({k \in 1..Len(s) : s[k] = e})

NoDuplicates(s) == \A a, b \in 1..Len(s) : a # b => s[a] # s[b]

Returned == pc \in {"done", "failed"}

AttemptedFiles == [k \in 1..Len(attempts) |-> attempts[k].file]

DecodedOK == {k \in 1..Len(attempts) : attempts[k].img # None}

EndsWith(name, suffix) ==
    /\ Len(name) >= Len(suffix)
    /\ SubSeq(name, Len(name) - Len(suffix) + 1, Len(name)) = suffix

ImageExtensions ==
    { << "j", "p", "g" >>, << "j", "p", "e", "g" >>,
      << "p", "n", "g" >>, << "b", "m", "p" >> }

\* A name has one of the extensions, the case counting as it counts for
\* file names on the platform.
HasImageExtension(name) ==
    \E e \in ImageExtensions :
        EndsWith(IF os_name = "nt" THEN Lower(name) ELSE name, << "." >> \o e)

KeyOrdered(s) ==
    \A k \in 1..(Len(s) - 1) :
        LET x == natural_sort_key(s[k]).toks
            y == natural_sort_key(s[k + 1]).toks
        IN  KeyComparable(x, y) /\ ~KeyLT(y, x)

\* C1: once the VideoWriter is open, release is called on it exactly once
\* on every way out of images_to_video: after the last frame, and after a
\* write that raised; it is called before the function returns or the
\* error reaches the caller, and nothing is written after it.
C1_ReleasedExactlyOnce ==
    /\ Count(log, "release") <= 1
    /\ \A k \in 1..Len(log) : log[k] = "release" => k = Len(log)
    /\ (Returned /\ sink.opened) => Count(log, "release") = 1
    /\ pc = "done" =>
          /\ Count(log, "write") = Len(img_array)
          /\ Count(log, "write_raised") = 0
    /\ (pc = "failed" /\ err = "WriteError") =>
          /\ Len(log) >= 3
          /\ log[Len(log) - 1] = "write_raised"
          /\ Count(log, "write") = Len(sink.frames)

C1_Witness ==
    /\ pc = "failed"
    /\ err = "WriteError"
    /\ Len(sink.frames) >= 1
    /\ Len(sink.frames) < Len(img_array)
    /\ log[Len(log)] = "release"

\* C2: when images_to_video returns, the frames written are the files whose
\* decode succeeded, one frame each, in natural-sort order of their names:
\* n matched files of which m failed to decode give n - m frames.
C2_FramesAreDecodedFilesInOrder ==
    pc = "done" =>
        LET srcs == [k \in 1..Len(sink.frames) |-> sink.frames[k].px.src]
            matched == {path_join(x) :
                           x \in {y \in dir : \E f \in Range(supported_formats) :
                                                 fnmatch(y, f)}}
            failed == {f \in matched :
                          \E k \in 1..Len(attempts) :
                              attempts[k].file = f /\ attempts[k].img = None}
        IN  /\ NoDuplicates(srcs)
            /\ Range(srcs) = matched \ failed
            /\ Len(srcs) = Cardinality(matched) - Cardinality(failed)
            /\ KeyOrdered(srcs)

C2_Witness ==
    /\ pc = "done"
    /\ os_name = "posix"
    /\ Len(attempts) = 3
    /\ Cardinality(DecodedOK) = 2
    /\ Len(sink.frames) = 2
    /\ sink.frames[1].px.src = << "d", "/", "2", ".", "j", "p", "g" >>
    /\ sink.frames[2].px.src = << "d", "/", "1", "0", ".", "j", "p", "g" >>

\* C3: in the decode loop a file that fails to decode is skipped and every
\* later file is still attempted; the run fails with the no-decodable
\* error exactly when there were matched files and every one of them
\* failed to decode, and then no VideoWriter was opened and no frame
\* written.
C3_DecodeFailureSkipped ==
    /\ pc = "decode" =>
          /\ AttemptedFiles = SubSeq(image_files, 1, i - 1)
          /\ Len(img_array) = Cardinality(DecodedOK)
    /\ (pc \in {"open", "write", "finally", "done"}
          \/ (pc = "failed" /\ err \in {"NoDecodable", "SinkOpen", "WriteError"}))
          => AttemptedFiles = image_files
    /\ Returned =>
          (err = "NoDecodable" <=>
              /\ image_files # << >>
              /\ Len(attempts) = Len(image_files)
              /\ DecodedOK = {})
    /\ err = "NoDecodable" => (pc = "failed" /\ sink = NoSink /\ log = << >>)

C3_Witness ==
    /\ pc = "failed"
    /\ err = "NoDecodable"
    /\ Len(attempts) = 3

C5_TargetIsPerAxisExtremum ==
    pc = "returned" =>
        LET ws == {heap[r].w : r \in Range(resize_in)}
            hs == {heap[r].h : r \in Range(resize_in)}
        IN  /\ align_mode = "smallest" => size = << MinOf(ws), MinOf(hs) >>
            /\ align_mode = "largest" => size = << MaxOf(ws), MaxOf(hs) >>
            /\ Len(resize_in) = 1 =>
                  size = << heap[resize_in[1]].w, heap[resize_in[1]].h >>

C5_Witness ==
    /\ pc = "returned"
    /\ align_mode = "smallest"
    /\ Len(resize_in) >= 2
    /\ \A r \in Range(resize_in) : << heap[r].w, heap[r].h >> # size

\* C6: every frame written has 3 channels and the width and height the
\* VideoWriter was opened with, which are the maxima of the widths and of
\* the heights of the decoded images, whatever their channels and sizes;
\* resize returns as many images as it was given.
C6_FramesUniform ==
    /\ \A k \in 1..Len(sink.frames) :
          /\ sink.frames[k].ch = 3
          /\ << sink.frames[k].w, sink.frames[k].h >> = sink.size
    /\ sink.opened =>
          sink.size = << MaxOf({attempts[k].img.w : k \in DecodedOK}),
                         MaxOf({attempts[k].img.h : k \in DecodedOK}) >>
    /\ pc \in {"open", "write", "finally", "done"} =>
          /\ Len(img_array) = Len(resize_in)
          /\ Len(img_array) = Cardinality(DecodedOK)

C6_Witness ==
    /\ pc = "done"
    /\ Len(sink.frames) >= 2
    /\ \E k \in DecodedOK : attempts[k].img.ch = 1
    /\ \E k \in DecodedOK : attempts[k].img.ch = 4
    /\ \A k \in DecodedOK : << attempts[k].img.w, attempts[k].img.h >> # sink.size

\* C7: sorting a list of names with natural_sort_key as the key gives a
\* permutation of the list ordered by the names' token sequences.
C7_SortOrdersByKey ==
    [][pc = "sort" =>
          /\ pc' = "decode"
          /\ \E p \in Perms(Len(image_files)) :
                image_files' = [k \in 1..Len(image_files) |-> image_files[p[k]]]
          /\ KeyOrdered(image_files')]_vars

\* C8: a call of resize leaves every buffer that existed before it as it
\* was and returns only buffers created by the call, one for each input;
\* when the inputs all have one size, each output has the size and the
\* pixels of its input.
C8_ResizeReturnsFreshCopies ==
    [][pc = "resize_call" =>
          /\ Len(heap') >= Len(heap)
          /\ \A r \in 1..Len(heap) : heap'[r] = heap[r]
          /\ Len(img_array') = Len(img_array)
          /\ \A k \in 1..Len(img_array') :
                img_array'[k] > Len(heap) /\ img_array'[k] <= Len(heap')
          /\ NoDuplicates(img_array')
          /\ (\A a, b \in Range(img_array) :
                 << heap[a].h, heap[a].w >> = << heap[b].h, heap[b].w >>)
                => \A k \in 1..Len(img_array) :
                       heap'[img_array'[k]] = heap[img_array[k]]]_vars

C8_Witness ==
    /\ pc = "returned"
    /\ Len(resize_in) >= 2
    /\ \E k \in 1..Len(img_array) : heap[img_array[k]].px.ops # NoOps
    /\ \E k \in 1..Len(img_array) : heap[img_array[k]] = heap[resize_in[k]]

\* C9: when the VideoWriter reports that it is not open, images_to_video
\* raises the sink-open error to its caller, having opened once and
\* written no frame.
C9_OpenFailureRaises ==
    /\ Count(log, "open_failed") > 0 =>
          /\ pc = "failed"
          /\ err = "SinkOpen"
          /\ sink.frames = << >>
          /\ log = << "open_failed" >>
    /\ err = "SinkOpen" => log = << "open_failed" >>

C9_Witness ==
    /\ pc = "failed"
    /\ err = "SinkOpen"
    /\ Len(img_array) >= 2

\* C10: natural_sort_key returns, for every string, tokens that alternate:
\* text at positions 0, 2, ... and integers at positions 1, 3, ...; so
\* computing the keys and comparing them never fails.
C10_KeysAlternate ==
    pc # "sort" =>
        /\ err = "none"
        /\ Len(keys) = Len(image_files)
        /\ \A k \in 1..Len(keys) :
              /\ keys[k].exc = "none"
              /\ \A j \in 1..Len(keys[k].toks) :
                    keys[k].toks[j].isInt <=> (j % 2 = 0)

====
